---- MODULE Spec2Model ----
(***************************************************************************)
(* Model of tools/voice_agent/agent.py: the coroutine main() (credential   *)
(* check, room connect, handler registration, session start, greeting,     *)
(* keep-alive polling loop, except/finally) and the data_received handler   *)
(* on_data_received, running against the room and the session, whose       *)
(* outcomes (an awaited call returns or raises, the connection state        *)
(* changes, a data packet arrives) are the environment's choices.           *)
(***************************************************************************)
EXTENDS Integers, Sequences, FiniteSets, TLC

\* ------------------------------------------------------------------ bounds
\* number of data packets delivered to the handler in one run
MaxData == 2

\* ------------------------------------------------------- python values
None == [tag |-> "none"]
Str(s) == [tag |-> "str", v |-> s]
Num(n) == [tag |-> "num", v |-> n]
List(s) == [tag |-> "list", v |-> s]
Obj(f) == [tag |-> "obj", items |-> f]

\* bool(v) of an environment variable value (os.getenv gives None or a str)
Truthy(v) == v.tag = "str" /\ v.v # ""

\* all([url, api_key, api_secret])
AllCreds(u, k, s) == Truthy(u) /\ Truthy(k) /\ Truthy(s)

\* values os.getenv can return for one variable
EnvVals == {None, Str(""), Str("x")}

\* ------------------------------------------------------- data packets
\* data.data: bytes that are valid UTF-8 or not, and the text they hold
Packets ==
  { [utf8 |-> FALSE, text |-> ""],
    [utf8 |-> TRUE, text |-> "hello"],
    [utf8 |-> TRUE, text |-> "[1]"],
    [utf8 |-> TRUE, text |-> "\"visual_context\""],
    [utf8 |-> TRUE, text |-> "{}"],
    [utf8 |-> TRUE, text |-> "{\"type\":\"other\",\"content\":\"a\"}"],
    [utf8 |-> TRUE, text |-> "{\"type\":\"visual_context\"}"],
    [utf8 |-> TRUE, text |-> "{\"type\":\"visual_context\",\"content\":null}"],
    [utf8 |-> TRUE, text |-> "{\"type\":\"visual_context\",\"content\":\"a\"}"],
    [utf8 |-> TRUE, text |-> "{\"type\":\"visual_context\",\"content\":\"b\"}"] }

\* data.data.decode(): raises UnicodeDecodeError on bytes that are not UTF-8
Decode(data) ==
  IF data.utf8 THEN [raised |-> FALSE, value |-> data.text]
               ELSE [raised |-> TRUE, value |-> ""]

\* json.loads(text) on the texts above: raises JSONDecodeError on non-JSON
JsonLoads(text) ==
  CASE text = "[1]" -> [raised |-> FALSE, value |-> List(<<Num(1)>>)]
    [] text = "\"visual_context\"" ->
         [raised |-> FALSE, value |-> Str("visual_context")]
    [] text = "{}" -> [raised |-> FALSE, value |-> Obj(<<>>)]
    [] text = "{\"type\":\"other\",\"content\":\"a\"}" ->
         [raised |-> FALSE,
          value |-> Obj("type" :> Str("other") @@ "content" :> Str("a"))]
    [] text = "{\"type\":\"visual_context\"}" ->
         [raised |-> FALSE, value |-> Obj("type" :> Str("visual_context"))]
    [] text = "{\"type\":\"visual_context\",\"content\":null}" ->
         [raised |-> FALSE,
          value |-> Obj("type" :> Str("visual_context") @@ "content" :> None)]
    [] text = "{\"type\":\"visual_context\",\"content\":\"a\"}" ->
         [raised |-> FALSE,
          value |-> Obj("type" :> Str("visual_context") @@ "content" :> Str("a"))]
    [] text = "{\"type\":\"visual_context\",\"content\":\"b\"}" ->
         [raised |-> FALSE,
          value |-> Obj("type" :> Str("visual_context") @@ "content" :> Str("b"))]
    [] OTHER -> [raised |-> TRUE, value |-> None]

\* payload.get(key): AttributeError unless payload is a dict; None when absent
Get(payload, key) ==
  IF payload.tag # "obj" THEN [raised |-> TRUE, value |-> None]
  ELSE IF key \in DOMAIN payload.items
       THEN [raised |-> FALSE, value |-> payload.items[key]]
       ELSE [raised |-> FALSE, value |-> None]

\* the {context} placeholder of the f-string: str(context)
PyStr(v) ==
  CASE v.tag = "none" -> "None"
    [] v.tag = "str" -> v.v
    [] v.tag = "num" -> ToString(v.v)
    [] OTHER -> "?"

\* the system message text built from the content
ContextText(context) ==
  "The current visual context (what the user sees) is: " \o PyStr(context)
  \o ". Use this information to better understand the user's request."

\* the three shapes of assistant.chat_ctx: no such attribute, a context that
\* accepts append(role=, text=), a context whose append raises
ChatCtxKinds == {"absent", "appendable", "readonly"}

\* hasattr(assistant, 'chat_ctx')
HasChatCtx(kind) == kind # "absent"

\* variant of ChatCtxAppend: the message replaces the context
ChatCtxOverwrite(ctx, role, text) == <<[role |-> role, text |-> text]>>

\* assistant.chat_ctx.append(role=..., text=...)
ChatCtxAppend(ctx, role, text) == Append(ctx, [role |-> role, text |-> text])

\* variant of IsVisualContext: the type is not tested
IsAnyType(t) == TRUE

\* payload.get("type") == "visual_context"
IsVisualContext(t) == t = Str("visual_context")

\* the body of the try block of on_data_received: the context afterwards and
\* whether an exception left the block
TryBody(data, ctx, kind) ==
  LET d == Decode(data) IN
  IF d.raised THEN [chat_ctx |-> ctx, raised |-> TRUE] ELSE
  LET j == JsonLoads(d.value) IN
  IF j.raised THEN [chat_ctx |-> ctx, raised |-> TRUE] ELSE
  LET t == Get(j.value, "type") IN
  IF t.raised THEN [chat_ctx |-> ctx, raised |-> TRUE] ELSE
  IF ~IsVisualContext(t.value) THEN [chat_ctx |-> ctx, raised |-> FALSE] ELSE
  LET context == Get(j.value, "content").value IN
  IF ~HasChatCtx(kind) THEN [chat_ctx |-> ctx, raised |-> FALSE] ELSE
  IF kind = "readonly" THEN [chat_ctx |-> ctx, raised |-> TRUE] ELSE
  [chat_ctx |-> ChatCtxAppend(ctx, "system", ContextText(context)),
   raised |-> FALSE]

\* variant of on_data_received: no except clause
on_data_received_uncaught(data, ctx, kind) ==
  LET r == TryBody(data, ctx, kind) IN
  [chat_ctx |-> r.chat_ctx, logged |-> FALSE, raised |-> r.raised]

\* on_data_received: the try body under except Exception (logged, swallowed)
on_data_received(data, ctx, kind) ==
  LET r == TryBody(data, ctx, kind) IN
  [chat_ctx |-> r.chat_ctx, logged |-> r.raised, raised |-> FALSE]

\* ------------------------------------------------------------------ state
VARIABLES
  url, api_key, api_secret, \* os.getenv results
  pc,                       \* position of main()
  connection_state,         \* room.connection_state
  roomOps,                  \* operations main() performed on the room, in order
  handlerRegistered,        \* on_data_received is subscribed to data_received
  chatCtxKind,              \* shape of assistant.chat_ctx
  chat_ctx,                 \* messages of assistant.chat_ctx
  sessionStarted,           \* session.start(...) returned
  sayCalls,                 \* calls of session.say(...)
  exc,                      \* the call whose exception main() caught
  mainErrors,               \* logger.error calls of main()
  dataErrors,               \* logger.error calls of on_data_received
  handlerRaised,            \* on_data_received let an exception out
  receivedLog               \* data packets delivered to the handler, in order

vars == <<url, api_key, api_secret, pc, connection_state, roomOps,
          handlerRegistered, chatCtxKind, chat_ctx, sessionStarted, sayCalls,
          exc, mainErrors, dataErrors, handlerRaised, receivedLog>>

creds == <<url, api_key, api_secret>>
dataVars == <<chat_ctx, dataErrors, handlerRaised, receivedLog>>

Init ==
  /\ url \in EnvVals /\ api_key \in EnvVals /\ api_secret \in EnvVals
  /\ pc = "load"
  /\ connection_state = "CONN_DISCONNECTED"
  /\ roomOps = <<>>
  /\ handlerRegistered = FALSE
  /\ chatCtxKind \in ChatCtxKinds
  /\ chat_ctx = <<>>
  /\ sessionStarted = FALSE
  /\ sayCalls = 0
  /\ exc = "none"
  /\ mainErrors = 0
  /\ dataErrors = 0
  /\ handlerRaised = FALSE
  /\ receivedLog = <<>>

\* ---------------------------------------------------------------- main()
\* if not all([...]): logger.error(...); return
CheckCreds ==
  /\ pc = "load"
  /\ IF AllCreds(url, api_key, api_secret)
     THEN pc' = "connect" /\ mainErrors' = mainErrors
     ELSE pc' = "done" /\ mainErrors' = mainErrors + 1
  /\ UNCHANGED <<creds, connection_state, roomOps, handlerRegistered,
                 chatCtxKind, sessionStarted, sayCalls, exc, dataVars>>

\* await room.connect(url, token) returns
ConnectOk ==
  /\ pc = "connect"
  /\ roomOps' = Append(roomOps, "connect")
  /\ connection_state' = "CONN_CONNECTED"
  /\ pc' = "setup"
  /\ UNCHANGED <<creds, handlerRegistered, chatCtxKind, sessionStarted,
                 sayCalls, exc, mainErrors, dataVars>>

\* variant of ConnectFail: the exception is swallowed and main() goes on
ConnectFailIgnored ==
  /\ pc = "connect"
  /\ roomOps' = Append(roomOps, "connect")
  /\ exc' = "connect"
  /\ pc' = "setup"
  /\ UNCHANGED <<creds, connection_state, handlerRegistered, chatCtxKind,
                 sessionStarted, sayCalls, mainErrors, dataVars>>

\* await room.connect(url, token) raises: control goes to the except clause
ConnectFail ==
  /\ pc = "connect"
  /\ roomOps' = Append(roomOps, "connect")
  /\ exc' = "connect"
  /\ pc' = "except"
  /\ UNCHANGED <<creds, connection_state, handlerRegistered, chatCtxKind,
                 sessionStarted, sayCalls, mainErrors, dataVars>>

\* voice.Agent(...), voice.AgentSession(), @room.on("data_received"),
\* @session.on(...): the handlers are registered
Setup ==
  /\ pc = "setup"
  /\ roomOps' = Append(roomOps, "on")
  /\ handlerRegistered' = TRUE
  /\ pc' = "start"
  /\ UNCHANGED <<creds, connection_state, chatCtxKind, sessionStarted,
                 sayCalls, exc, mainErrors, dataVars>>

\* a constructor of the assistant (STT, LLM, TTS, VAD) raises
SetupFail ==
  /\ pc = "setup"
  /\ exc' = "setup"
  /\ pc' = "except"
  /\ UNCHANGED <<creds, connection_state, roomOps, handlerRegistered,
                 chatCtxKind, sessionStarted, sayCalls, mainErrors, dataVars>>

\* await session.start(assistant, room=room) returns
StartOk ==
  /\ pc = "start"
  /\ roomOps' = Append(roomOps, "start")
  /\ sessionStarted' = TRUE
  /\ pc' = "say"
  /\ UNCHANGED <<creds, connection_state, handlerRegistered, chatCtxKind,
                 sayCalls, exc, mainErrors, dataVars>>

\* await session.start(assistant, room=room) raises
StartFail ==
  /\ pc = "start"
  /\ roomOps' = Append(roomOps, "start")
  /\ exc' = "start"
  /\ pc' = "except"
  /\ UNCHANGED <<creds, connection_state, handlerRegistered, chatCtxKind,
                 sessionStarted, sayCalls, mainErrors, dataVars>>

\* variant of SayOk: the greeting is left out
SayOkSkipped ==
  /\ pc = "say"
  /\ pc' = "wait"
  /\ UNCHANGED <<creds, connection_state, roomOps, handlerRegistered,
                 chatCtxKind, sessionStarted, sayCalls, exc, mainErrors,
                 dataVars>>

\* session.say("World Weaver agent connected. ...") returns
SayOk ==
  /\ pc = "say"
  /\ sayCalls' = sayCalls + 1
  /\ pc' = "wait"
  /\ UNCHANGED <<creds, connection_state, roomOps, handlerRegistered,
                 chatCtxKind, sessionStarted, exc, mainErrors, dataVars>>

\* session.say(...) raises
SayFail ==
  /\ pc = "say"
  /\ sayCalls' = sayCalls + 1
  /\ exc' = "say"
  /\ pc' = "except"
  /\ UNCHANGED <<creds, connection_state, roomOps, handlerRegistered,
                 chatCtxKind, sessionStarted, mainErrors, dataVars>>

\* variant of WaitCheck: a lost connection leads to a new connect
WaitCheckReconnect ==
  /\ pc = "wait"
  /\ IF connection_state = "CONN_CONNECTED"
     THEN pc' = "sleep"
     ELSE pc' = "connect"
  /\ UNCHANGED <<creds, connection_state, roomOps, handlerRegistered,
                 chatCtxKind, sessionStarted, sayCalls, exc, mainErrors,
                 dataVars>>

\* variant of WaitCheck: the loop condition is always true
WaitCheckNever ==
  /\ pc = "wait"
  /\ pc' = "sleep"
  /\ UNCHANGED <<creds, connection_state, roomOps, handlerRegistered,
                 chatCtxKind, sessionStarted, sayCalls, exc, mainErrors,
                 dataVars>>

\* while room.connection_state == rtc.ConnectionState.CONN_CONNECTED:
WaitCheck ==
  /\ pc = "wait"
  /\ IF connection_state = "CONN_CONNECTED"
     THEN pc' = "sleep"
     ELSE pc' = "finally"
  /\ UNCHANGED <<creds, connection_state, roomOps, handlerRegistered,
                 chatCtxKind, sessionStarted, sayCalls, exc, mainErrors,
                 dataVars>>

\* await asyncio.sleep(1)
Sleep ==
  /\ pc = "sleep"
  /\ pc' = "wait"
  /\ UNCHANGED <<creds, connection_state, roomOps, handlerRegistered,
                 chatCtxKind, sessionStarted, sayCalls, exc, mainErrors,
                 dataVars>>

\* variant of Except: only a connect failure ends the run
ExceptContinue ==
  /\ pc = "except"
  /\ mainErrors' = mainErrors + 1
  /\ pc' = IF exc = "connect" THEN "finally" ELSE "wait"
  /\ UNCHANGED <<creds, connection_state, roomOps, handlerRegistered,
                 chatCtxKind, sessionStarted, sayCalls, exc, dataVars>>

\* except Exception as e: logger.error(...)
Except ==
  /\ pc = "except"
  /\ mainErrors' = mainErrors + 1
  /\ pc' = "finally"
  /\ UNCHANGED <<creds, connection_state, roomOps, handlerRegistered,
                 chatCtxKind, sessionStarted, sayCalls, exc, dataVars>>

\* variant of Finally: the room is not disconnected
FinallyNoDisconnect ==
  /\ pc = "finally"
  /\ pc' = "done"
  /\ UNCHANGED <<creds, connection_state, roomOps, handlerRegistered,
                 chatCtxKind, sessionStarted, sayCalls, exc, mainErrors,
                 dataVars>>

\* finally: await room.disconnect()
Finally ==
  /\ pc = "finally"
  /\ roomOps' = Append(roomOps, "disconnect")
  /\ connection_state' = "CONN_DISCONNECTED"
  /\ pc' = "done"
  /\ UNCHANGED <<creds, handlerRegistered, chatCtxKind, sessionStarted,
                 sayCalls, exc, mainErrors, dataVars>>

\* ------------------------------------------------------------ environment
\* the room emits data_received to the subscribed handler
DataReceived ==
  /\ handlerRegistered
  /\ connection_state = "CONN_CONNECTED"
  /\ Len(receivedLog) < MaxData
  /\ \E data \in Packets :
       LET r == on_data_received(data, chat_ctx, chatCtxKind) IN
       /\ chat_ctx' = r.chat_ctx
       /\ dataErrors' = IF r.logged THEN dataErrors + 1 ELSE dataErrors
       /\ handlerRaised' = (handlerRaised \/ r.raised)
       /\ receivedLog' = Append(receivedLog, data)
  /\ UNCHANGED <<creds, pc, connection_state, roomOps, handlerRegistered,
                 chatCtxKind, sessionStarted, sayCalls, exc, mainErrors>>

\* the transport drops, starts reconnecting, or is connected again, while
\* the room is in use
ConnectionChange ==
  /\ pc \in {"setup", "start", "say", "wait", "sleep", "except", "finally"}
  /\ connection_state # "CONN_DISCONNECTED"
  /\ \E s \in {"CONN_DISCONNECTED", "CONN_CONNECTED", "CONN_RECONNECTING"} :
       /\ s # connection_state
       /\ connection_state' = s
  /\ UNCHANGED <<creds, pc, roomOps, handlerRegistered, chatCtxKind,
                 sessionStarted, sayCalls, exc, mainErrors, dataVars>>

Main ==
  \/ CheckCreds
  \/ ConnectOk
  \/ ConnectFail
  \/ Setup
  \/ SetupFail
  \/ StartOk
  \/ StartFail
  \/ SayOk
  \/ SayFail
  \/ WaitCheck
  \/ Sleep
  \/ Except
  \/ Finally

Next ==
  \/ CheckCreds
  \/ ConnectOk
  \/ ConnectFail
  \/ Setup
  \/ SetupFail
  \/ StartOk
  \/ StartFail
  \/ SayOk
  \/ SayFail
  \/ WaitCheck
  \/ Sleep
  \/ Except
  \/ Finally
  \/ DataReceived
  \/ ConnectionChange

Spec == Init /\ [][Next]_vars

\* the event loop keeps running main(): a step of main() that can be taken
\* is taken
FairSpec == Spec /\ WF_vars(Main)

TypeOK ==
  /\ pc \in {"load", "connect", "setup", "start", "say", "wait", "sleep",
             "except", "finally", "done"}
  /\ connection_state \in {"CONN_DISCONNECTED", "CONN_CONNECTED",
                           "CONN_RECONNECTING"}
  /\ Len(receivedLog) <= MaxData
  /\ sayCalls \in 0..1

\* ------------------------------------------------------------ properties
Count(seq, x) == Cardinality({i \in DOMAIN seq : seq[i] = x})

LastOp == IF roomOps = <<>> THEN "none" ELSE roomOps[Len(roomOps)]

\* the packets that are a JSON object of type visual_context, with the text
\* their content is shown as
VisualShown ==
  "{\"type\":\"visual_context\"}" :> "None"
  @@ "{\"type\":\"visual_context\",\"content\":null}" :> "None"
  @@ "{\"type\":\"visual_context\",\"content\":\"a\"}" :> "a"
  @@ "{\"type\":\"visual_context\",\"content\":\"b\"}" :> "b"

IsVisualPacket(p) == p.utf8 /\ p.text \in DOMAIN VisualShown

\* bytes that do not decode, text that is not JSON, JSON that is not an object
IsMalformedPacket(p) ==
  \/ ~p.utf8
  \/ p.text \in {"hello", "[1]", "\"visual_context\""}

ExpectedMessage(p) ==
  [role |-> "system",
   text |-> "The current visual context (what the user sees) is: "
            \o VisualShown[p.text]
            \o ". Use this information to better understand the user's request."]

VisualReceived == SelectSeq(receivedLog, IsVisualPacket)

Received == Len(receivedLog') = Len(receivedLog) + 1

LastReceived == receivedLog'[Len(receivedLog')]

mainVars == <<url, api_key, api_secret, pc, connection_state, roomOps,
              handlerRegistered, chatCtxKind, sessionStarted, sayCalls, exc,
              mainErrors>>

\* C1 (as stated): once a visual_context message has been received by an
\* assistant whose context accepts it, the context holds exactly one visual
\* fact, that of the most recent message.
C1_LastWriteWins ==
  (chatCtxKind = "appendable" /\ VisualReceived # <<>>) =>
     chat_ctx = <<ExpectedMessage(VisualReceived[Len(VisualReceived)])>>

\* C1 (amended): with a context that accepts append, the context holds one
\* system message per visual_context message received, in arrival order, so
\* its last message is that of the most recent one and the earlier ones
\* remain; with no chat_ctx or a context that refuses append it stays empty.
C1_AppendOnly ==
  IF chatCtxKind = "appendable"
  THEN /\ Len(chat_ctx) = Len(VisualReceived)
       /\ \A i \in 1..Len(chat_ctx) :
            chat_ctx[i] = ExpectedMessage(VisualReceived[i])
  ELSE chat_ctx = <<>>

C1_Witness ==
  /\ chatCtxKind = "appendable"
  /\ Len(chat_ctx) = 2
  /\ chat_ctx[1] # chat_ctx[2]

\* C2 (as stated): a received data message changes the assistant context if
\* and only if it is a visual_context payload.
C2_ChangesIffVisual ==
  [][Received => ((chat_ctx' # chat_ctx) <=> IsVisualPacket(LastReceived))]_vars

\* C2 (amended): a received data message changes the assistant context only
\* if it is a visual_context payload; such a payload is appended as a system
\* message when the context accepts append and changes nothing otherwise;
\* an object of any other type, or of no type, changes nothing but the log
\* of received packets.
C2_ChangesOnlyIfVisual ==
  [][Received =>
       /\ (chat_ctx' # chat_ctx) =>
            (IsVisualPacket(LastReceived) /\ chatCtxKind = "appendable")
       /\ (IsVisualPacket(LastReceived) /\ chatCtxKind = "appendable") =>
            chat_ctx' = Append(chat_ctx, ExpectedMessage(LastReceived))
       /\ (~IsVisualPacket(LastReceived) /\ ~IsMalformedPacket(LastReceived)) =>
            UNCHANGED <<mainVars, chat_ctx, dataErrors, handlerRaised>>
       /\ UNCHANGED mainVars]_vars

C2_Witness ==
  /\ Len(receivedLog) = 2
  /\ receivedLog[1].text = "{\"type\":\"other\",\"content\":\"a\"}"
  /\ IsVisualPacket(receivedLog[2])
  /\ Len(chat_ctx) = 1

\* C3: a malformed data message is logged and dropped: the handler lets no
\* exception out, the context and the state of main() stay as they were, the
\* handler stays subscribed.
C3_MalformedDropped ==
  [][(Received /\ IsMalformedPacket(LastReceived)) =>
       /\ chat_ctx' = chat_ctx
       /\ dataErrors' = dataErrors + 1
       /\ ~handlerRaised'
       /\ handlerRegistered'
       /\ UNCHANGED mainVars]_vars

\* a malformed packet was dropped and the visual_context packet after it was
\* recorded
C3_Witness ==
  /\ Len(receivedLog) = 2
  /\ IsMalformedPacket(receivedLog[1])
  /\ IsVisualPacket(receivedLog[2])
  /\ dataErrors = 1
  /\ Len(chat_ctx) = 1
  /\ pc \in {"wait", "sleep"}

\* C4: when room.connect fails, the session is never started, no greeting is
\* said, the failure is logged as an error, and connect is called once.
C4_ConnectRejected ==
  exc = "connect" =>
     /\ ~sessionStarted
     /\ sayCalls = 0
     /\ Count(roomOps, "start") = 0
     /\ Count(roomOps, "connect") = 1
     /\ pc \in {"except", "finally", "done"}
     /\ (pc # "except" => mainErrors = 1)

C4_Witness == exc = "connect" /\ pc = "done" /\ mainErrors = 1

\* C5 (as stated): a run that ends after the session was live, without an
\* exception, ends only after a reconnection attempt.
C5_ReconnectBeforeClose ==
  (pc = "done" /\ sayCalls = 1 /\ exc = "none") => Count(roomOps, "connect") >= 2

\* C5 (amended): when the keep-alive loop finds the connection state other
\* than connected, main() makes no reconnection attempt: it goes straight to
\* room.disconnect; room.connect is called at most once in a run.
C5_NoReconnect ==
  [][/\ Count(roomOps', "connect") <= 1
     /\ (pc = "wait" /\ pc' # pc /\ connection_state # "CONN_CONNECTED") =>
           (pc' = "finally" /\ roomOps' = roomOps)
     /\ (pc = "finally" /\ pc' # pc) =>
           (pc' = "done" /\ roomOps' = Append(roomOps, "disconnect"))]_vars

C5_Witness ==
  /\ pc = "done"
  /\ sayCalls = 1
  /\ exc = "none"
  /\ roomOps = <<"connect", "on", "start", "disconnect">>

C8_OnlyAuthOrTransport ==
  pc = "done" => exc \notin {"setup", "start", "say"}

\* C8 (amended): every exception raised in the try block (connect, setup of
\* the assistant, session start, greeting) ends the run: it is logged once
\* and followed by room.disconnect; main() does not return to the session.
C8_EveryErrorEndsRun ==
  exc # "none" =>
     /\ pc \in {"except", "finally", "done"}
     /\ (pc # "except" => mainErrors = 1)
     /\ (pc = "done" => LastOp = "disconnect")

C8_Witness == pc = "done" /\ exc = "start" /\ LastOp = "disconnect"

InWait == pc \in {"wait", "sleep"}

C10_DisconnectOnce ==
  IF AllCreds(url, api_key, api_secret)
  THEN /\ Count(roomOps, "disconnect") <= 1
       /\ Count(roomOps, "disconnect") = 1 => LastOp = "disconnect"
       /\ pc = "done" => Count(roomOps, "disconnect") = 1
  ELSE roomOps = <<>>

C10_Witness == pc = "done" /\ exc = "say" /\ LastOp = "disconnect"

====
